---- MODULE Spec2Model ----
(***************************************************************************)
(* A model of the jellyschema compilation core: the deserializer of the   *)
(* raw YAML tree (dsl/schema/deserialization.rs), the normalizer of the   *)
(* source schema (dsl/schema/normalization.rs), the construction of an    *)
(* enumeration value from a literal (dsl/enums/mod.rs) and the JSON       *)
(* Schema serializer (output/serialization/json_schema.rs).               *)
(*                                                                         *)
(* Text is modelled as a sequence of one-character strings, so that       *)
(* encodings (JSON text, the optional-type suffix) are computed character *)
(* by character.                                                           *)
(***************************************************************************)
EXTENDS Integers, Sequences, FiniteSets, TLC

VARIABLES pc, raw, root, output, declared, source, first, passes, literal, enumeration

vars == <<pc, raw, root, output, declared, source, first, passes, literal, enumeration>>

----------------------------------------------------------------------------
(* Bounds of the model. *)

\* integers tried as `version` are 0 .. MaxVersion (and one negative)
MaxVersion == 2
\* longest `properties` sequence of the root node
MaxProps == 2
\* longest property list of a source schema
MaxEntries == 2
\* longest candidate-type list of a property
MaxTypes == 2
\* normalize is applied at most this many times in a row
MaxPasses == 2
\* longest enumeration literal
MaxLiteral == 3

----------------------------------------------------------------------------
(* Option and Result. *)

None == [some |-> FALSE]
Some(x) == [some |-> TRUE, val |-> x]

Ok(x) == [ok |-> TRUE, val |-> x]
Err(message) == [ok |-> FALSE, val |-> message]

----------------------------------------------------------------------------
(* serde_yaml::Value: the raw tree. *)

Null == [t |-> "Null", v |-> <<>>]
Bool(b) == [t |-> "Bool", v |-> b]
\* Number holding an integer (as_u64 is Some exactly when it is >= 0)
Num(n) == [t |-> "Int", v |-> n]
\* Number holding a float, by its decimal text
Float(chars) == [t |-> "Float", v |-> chars]
Str(chars) == [t |-> "String", v |-> chars]
Sequence(values) == [t |-> "Sequence", v |-> values]
\* Mapping: insertion-ordered entries <<key, value>> with distinct keys
Mapping(entries) == [t |-> "Mapping", v |-> entries]

\* Mapping::get
Get(entries, key) ==
    IF \E i \in 1..Len(entries) : entries[i][1] = key
    THEN LET i == CHOOSE j \in 1..Len(entries) : entries[j][1] = key
         IN  Some(entries[i][2])
    ELSE None

\* Value::as_u64
as_u64(value) ==
    IF value.t = "Int" /\ value.v >= 0 THEN Some(value.v) ELSE None

\* Value::as_mapping
as_mapping(value) ==
    IF value.t = "Mapping" THEN Some(value.v) ELSE None

\* serde_yaml::from_value::<String>: only a string value decodes as a String
from_value_String(value) ==
    IF value.t = "String" THEN Ok(value.v) ELSE Err("invalid type, expected a string")

K_version == Str(<<"v","e","r","s","i","o","n">>)
K_formula == Str(<<"f","o","r","m","u","l","a">>)
K_properties == Str(<<"p","r","o","p","e","r","t","i","e","s">>)
K_type == Str(<<"t","y","p","e">>)
K_widget == Str(<<"w","i","d","g","e","t">>)
K_title == Str(<<"t","i","t","l","e">>)
K_help == Str(<<"h","e","l","p">>)
K_warning == Str(<<"w","a","r","n","i","n","g">>)
K_description == Str(<<"d","e","s","c","r","i","p","t","i","o","n">>)

----------------------------------------------------------------------------
(* serde_json::to_string of a serde_yaml::Value. *)

Digits == <<"0","1","2","3","4","5","6","7","8","9">>

RECURSIVE NatText(_)
NatText(n) ==
    IF n < 10 THEN <<Digits[n + 1]>>
    ELSE NatText(n \div 10) \o <<Digits[(n % 10) + 1]>>

IntText(n) == IF n < 0 THEN <<"-">> \o NatText(0 - n) ELSE NatText(n)

\* the characters serde_json escapes with a backslash
EscapeChar(c) ==
    IF c = "\"" THEN <<"\\", "\"">>
    ELSE IF c = "\\" THEN <<"\\", "\\">>
    ELSE <<c>>

RECURSIVE EscapeText(_)
EscapeText(chars) ==
    IF chars = <<>> THEN <<>>
    ELSE EscapeChar(Head(chars)) \o EscapeText(Tail(chars))

Quoted(chars) == <<"\"">> \o EscapeText(chars) \o <<"\"">>

\* a map key: a string as it is, an integer as its quoted text; anything else
\* is refused ("key must be a string")
JsonKey(key) ==
    IF key.t = "String" THEN Ok(Quoted(key.v))
    ELSE IF key.t = "Int" THEN Ok(<<"\"">> \o IntText(key.v) \o <<"\"">>)
    ELSE Err("key must be a string")

RECURSIVE to_string(_)
RECURSIVE JsonItems(_, _)
RECURSIVE JsonEntries(_, _)

\* the elements of a sequence from index i on, comma-separated
JsonItems(values, i) ==
    IF i > Len(values) THEN Ok(<<>>)
    ELSE LET item == to_string(values[i])
             rest == JsonItems(values, i + 1)
         IN  IF ~item.ok THEN item
             ELSE IF ~rest.ok THEN rest
             ELSE Ok((IF i > 1 THEN <<",">> ELSE <<>>) \o item.val \o rest.val)

\* the entries of a mapping from index i on, comma-separated
JsonEntries(entries, i) ==
    IF i > Len(entries) THEN Ok(<<>>)
    ELSE LET key == JsonKey(entries[i][1])
             value == to_string(entries[i][2])
             rest == JsonEntries(entries, i + 1)
         IN  IF ~key.ok THEN key
             ELSE IF ~value.ok THEN value
             ELSE IF ~rest.ok THEN rest
             ELSE Ok((IF i > 1 THEN <<",">> ELSE <<>>)
                     \o key.val \o <<":">> \o value.val \o rest.val)

to_string(value) ==
    CASE value.t = "Null" -> Ok(<<"n","u","l","l">>)
      [] value.t = "Bool" ->
            Ok(IF value.v THEN <<"t","r","u","e">> ELSE <<"f","a","l","s","e">>)
      [] value.t = "Int" -> Ok(IntText(value.v))
      [] value.t = "Float" -> Ok(value.v)
      [] value.t = "String" -> Ok(Quoted(value.v))
      [] value.t = "Sequence" ->
            LET items == JsonItems(value.v, 1)
            IN  IF items.ok THEN Ok(<<"[">> \o items.val \o <<"]">>) ELSE items
      [] value.t = "Mapping" ->
            LET entries == JsonEntries(value.v, 1)
            IN  IF entries.ok THEN Ok(<<"{">> \o entries.val \o <<"}">>) ELSE entries

----------------------------------------------------------------------------
(* The type system: a raw kind, with its optional configuration, wrapped in *)
(* a requiredness marker.                                                   *)

RawObjectType(kind, config) == [kind |-> kind, config |-> config]
Required(rawType) == [wrap |-> "Required", raw |-> rawType]
Optional(rawType) == [wrap |-> "Optional", raw |-> rawType]

Object == RawObjectType("Object", None)
Text == RawObjectType("Text", None)
String == RawObjectType("String", None)

\* ObjectType::inner_raw
inner_raw(objectType) == objectType.raw

T_object == <<"o","b","j","e","c","t">>
T_text == <<"t","e","x","t">>
T_string == <<"s","t","r","i","n","g">>

\* the kind a type name stands for
deserialize_individual_type_definition(name, yaml_mapping) ==
    IF name = T_object THEN Ok(Required(Object))
    ELSE IF name = T_text THEN Ok(Required(Text))
    ELSE IF name = T_string THEN Ok(Required(String))
    ELSE Err("unknown object type")

\* the `type` entry of a node: absent, or a kind name, with a trailing `?`
\* for an optional type
deserialize_object_type(yaml_mapping) ==
    LET entry == Get(yaml_mapping, K_type)
    IN  IF ~entry.some THEN Ok(None)
        ELSE IF entry.val.t # "String" \/ entry.val.v = <<>>
        THEN Err("cannot deserialize type specifier")
        ELSE LET chars == entry.val.v
                 optional == chars[Len(chars)] = "?"
                 name == IF optional THEN SubSeq(chars, 1, Len(chars) - 1) ELSE chars
                 definition == deserialize_individual_type_definition(name, yaml_mapping)
             IN  IF ~definition.ok THEN definition
                 ELSE IF optional THEN Ok(Some(Optional(definition.val.raw)))
                 ELSE Ok(Some(definition.val))

----------------------------------------------------------------------------
(* Annotations. *)

W_default == <<"d","e","f","a","u","l","t">>
W_textarea == <<"t","e","x","t","a","r","e","a">>
W_dropdown == <<"d","r","o","p","d","o","w","n">>

\* the closed set of rendering hints
Widget == {"Default", "Textarea", "Dropdown"}

WidgetFrom(chars) ==
    IF chars = W_default THEN Ok("Default")
    ELSE IF chars = W_textarea THEN Ok("Textarea")
    ELSE IF chars = W_dropdown THEN Ok("Dropdown")
    ELSE Err("unknown variant")

\* an optional text field of the annotations
TextField(entries, key) ==
    LET entry == Get(entries, key)
    IN  IF ~entry.some THEN Ok(None)
        ELSE IF entry.val.t = "String" THEN Ok(Some(entry.val.v))
        ELSE Err("invalid type, expected a string")

\* the optional widget field of the annotations
WidgetField(entries) ==
    LET entry == Get(entries, K_widget)
    IN  IF ~entry.some THEN Ok(None)
        ELSE IF entry.val.t # "String" THEN Err("invalid type, expected a string")
        ELSE LET widget == WidgetFrom(entry.val.v)
             IN  IF widget.ok THEN Ok(Some(widget.val)) ELSE widget

\* serde_yaml::from_value::<Annotations> of the node's whole value
AnnotationsFromValue(value) ==
    IF value.t # "Mapping" THEN Err("invalid type, expected a mapping")
    ELSE LET title == TextField(value.v, K_title)
             help == TextField(value.v, K_help)
             warning == TextField(value.v, K_warning)
             description == TextField(value.v, K_description)
             widget == WidgetField(value.v)
         IN  IF ~title.ok THEN title
             ELSE IF ~help.ok THEN help
             ELSE IF ~warning.ok THEN warning
             ELSE IF ~description.ok THEN description
             ELSE IF ~widget.ok THEN widget
             ELSE Ok([title |-> title.val, help |-> help.val, warning |-> warning.val,
                      description |-> description.val, widget |-> widget.val])

\* dsl::schema::dynamic::keys_values: the dynamic key/value schema of a node;
\* the documents of this model declare none
keys_values(yaml_mapping) == Ok(None)

----------------------------------------------------------------------------
(* dsl/schema/deserialization.rs *)

DEFAULT_VERSION == 1

\* Schema::with_version
with_version(schema, number) == [schema EXCEPT !.version = Some(number)]

DocumentRoot(schema) == [schema |-> schema]

\* version without the comparison against DEFAULT_VERSION: any unsigned
\* integer passes
version_unchecked(yaml_mapping) ==
    LET entry == Get(yaml_mapping, K_version)
    IN  IF entry.some
        THEN LET n == as_u64(entry.val)
             IN  IF n.some THEN Ok(Some(n.val))
                 ELSE Err("version must be a positive integer")
        ELSE Ok(None)

version(yaml_mapping) ==
    LET entry == Get(yaml_mapping, K_version)
        number == IF entry.some
                  THEN LET n == as_u64(entry.val)
                       IN  IF n.some THEN Ok(Some(n.val))
                           ELSE Err("version must be a positive integer")
                  ELSE Ok(None)
    IN  IF ~number.ok THEN number
        ELSE IF number.val.some /\ number.val.val # DEFAULT_VERSION
        THEN Err("invalid version number specified")
        ELSE number

\* formula without the string case: a string is JSON-encoded like any other
\* value
formula_encoded(yaml_mapping) ==
    LET value == Get(yaml_mapping, K_formula)
    IN  IF ~value.some THEN Ok(None)
        ELSE LET string == to_string(value.val)
             IN  IF ~string.ok THEN Err("error parsing formula value expression")
                 ELSE Ok(Some(string.val))

formula(yaml_mapping) ==
    LET value == Get(yaml_mapping, K_formula)
    IN  IF ~value.some THEN Ok(None)
        ELSE IF value.val.t = "String" THEN Ok(Some(value.val.v))
        ELSE LET string == to_string(value.val)
             IN  IF ~string.ok THEN Err("error parsing formula value expression")
                 ELSE Ok(Some(string.val))

annotations(value) ==
    LET decoded == AnnotationsFromValue(value)
    IN  IF ~decoded.ok THEN Err("cannot deserialize schema annotations") ELSE decoded

type_information(yaml_mapping) ==
    LET information == deserialize_object_type(yaml_mapping)
    IN  IF ~information.ok THEN information
        ELSE IF information.val.some THEN Ok(information.val.val)
        ELSE deserialize_individual_type_definition(T_object, yaml_mapping)

\* annotations_from_type that keeps an explicitly supplied widget
annotations_from_type_keep(old_annotations, information) ==
    LET widget == IF inner_raw(information).kind = "Text" /\ ~old_annotations.widget.some
                  THEN Some("Textarea")
                  ELSE old_annotations.widget
    IN  [old_annotations EXCEPT !.widget = widget]

annotations_from_type(old_annotations, information) ==
    LET widget == IF inner_raw(information).kind = "Text"
                  THEN Some("Textarea")
                  ELSE old_annotations.widget
    IN  [old_annotations EXCEPT !.widget = widget]

RECURSIVE deserialize_schema(_)
RECURSIVE mapping_to_named_schema(_)
RECURSIVE SchemaEntries(_, _)

\* the entries of sequence_to_schema_list from index i on: the first failure
\* ends the collection
SchemaEntries(sequence, i) ==
    IF i > Len(sequence) THEN Ok(<<>>)
    ELSE LET mapping == as_mapping(sequence[i])
         IN  IF ~mapping.some THEN Err("cannot deserialize schema as mapping")
             ELSE LET entry == mapping_to_named_schema(mapping.val)
                  IN  IF ~entry.ok THEN entry
                      ELSE LET rest == SchemaEntries(sequence, i + 1)
                           IN  IF ~rest.ok THEN rest
                               ELSE Ok(<<entry.val>> \o rest.val)

Reverse(seq) == [i \in 1..Len(seq) |-> seq[Len(seq) + 1 - i]]

\* sequence_to_schema_list that collects the entries last to first
sequence_to_schema_list_reversed(sequence) ==
    LET list == SchemaEntries(sequence, 1)
    IN  IF ~list.ok THEN list ELSE Ok([entries |-> Reverse(list.val)])

sequence_to_schema_list(sequence) ==
    LET list == SchemaEntries(sequence, 1)
    IN  IF ~list.ok THEN list ELSE Ok([entries |-> list.val])

mapping_to_named_schema(mapping) ==
    IF mapping = <<>> THEN Err("cannot get first element of the sequence")
    ELSE LET key == from_value_String(mapping[1][1])
         IN  IF ~key.ok THEN Err("cannot deserialize named schema name")
             ELSE LET value == deserialize_schema(mapping[1][2])
                  IN  IF ~value.ok THEN value
                      ELSE Ok([name |-> key.val, schema |-> value.val])

properties(yaml_mapping) ==
    LET entry == Get(yaml_mapping, K_properties)
    IN  IF ~entry.some THEN Ok(None)
        ELSE IF entry.val.t = "Sequence"
        THEN LET list == sequence_to_schema_list(entry.val.v)
             IN  IF ~list.ok THEN list ELSE Ok(Some(list.val))
        ELSE Err("properties is not a yaml sequence")

deserialize_schema(value) ==
    LET yaml_mapping == as_mapping(value)
    IN  IF ~yaml_mapping.some THEN Err("schema is not a yaml mapping")
        ELSE
        LET v == version(yaml_mapping.val)
        IN  IF ~v.ok THEN v ELSE
        LET information == type_information(yaml_mapping.val)
        IN  IF ~information.ok THEN information ELSE
        LET decoded == annotations(value)
        IN  IF ~decoded.ok THEN decoded ELSE
        LET children == properties(yaml_mapping.val)
        IN  IF ~children.ok THEN children ELSE
        LET dynamic == keys_values(yaml_mapping.val)
        IN  IF ~dynamic.ok THEN dynamic ELSE
        LET f == formula(yaml_mapping.val)
        IN  IF ~f.ok THEN f ELSE
            Ok([version |-> v.val,
                object_type |-> information.val,
                children |-> children.val,
                dynamic |-> dynamic.val,
                annotations |-> annotations_from_type(decoded.val, information.val),
                formula |-> f.val])

deserialize_root(schema) ==
    LET deserialized == deserialize_schema(schema)
    IN  IF ~deserialized.ok THEN deserialized
        ELSE IF ~deserialized.val.version.some
        THEN Ok(DocumentRoot(with_version(deserialized.val, DEFAULT_VERSION)))
        ELSE Ok(DocumentRoot(deserialized.val))

----------------------------------------------------------------------------
(* dsl/schema/normalization.rs *)

\* the source schema: an optional property list; each entry names a property
\* with an optional list of candidate types
SourceSchema(property_list) == [property_list |-> property_list]
PropertyList(entries) == [entries |-> entries]
PropertyEntry(name, types) == [name |-> name, property |-> [types |-> types]]

\* the composite kind: its configuration is the source schema it nests
Array(config) == RawObjectType("Array", config)

RECURSIVE SourceSchema_normalize(_)
RECURSIVE ObjectType_normalize(_)

\* impl Normalize for ObjectType: the defaulting rule applied to the schema
\* nested in the type's configuration
ObjectType_normalize(def) ==
    IF def.raw.kind = "Array" /\ def.raw.config.some
    THEN [def EXCEPT !.raw.config = Some(SourceSchema_normalize(def.raw.config.val))]
    ELSE def

\* PropertyEntry::normalize that appends the default type on every pass
PropertyEntry_normalize_push(entry) ==
    LET types == entry.property.types
        normalized == IF types.some
                      THEN [i \in 1..Len(types.val) |-> ObjectType_normalize(types.val[i])]
                      ELSE <<>>
    IN  [entry EXCEPT !.property.types = Some(normalized \o <<Required(Object)>>)]

\* PropertyEntry::normalize whose default type is optional
PropertyEntry_normalize_optional(entry) ==
    LET types == entry.property.types
    IN  IF ~types.some
        THEN [entry EXCEPT !.property.types = Some(<<Optional(Object)>>)]
        ELSE [entry EXCEPT !.property.types =
                 Some([i \in 1..Len(types.val) |-> ObjectType_normalize(types.val[i])])]

PropertyEntry_normalize(entry) ==
    LET types == entry.property.types
        normalized == IF types.some
                      THEN Some([i \in 1..Len(types.val) |->
                                    ObjectType_normalize(types.val[i])])
                      ELSE None
    IN  IF ~normalized.some
        THEN [entry EXCEPT !.property.types = Some(<<Required(Object)>>)]
        ELSE [entry EXCEPT !.property.types = normalized]

SourceSchema_normalize(schema) ==
    IF schema.property_list.some
    THEN LET entries == schema.property_list.val.entries
         IN  [schema EXCEPT !.property_list =
                 Some(PropertyList([i \in 1..Len(entries) |->
                                       PropertyEntry_normalize(entries[i])]))]
    ELSE schema

----------------------------------------------------------------------------
(* dsl/enums/mod.rs *)

DisplayInformation(title, help, warning, description) ==
    [title |-> title, help |-> help, warning |-> warning, description |-> description]

\* EnumerationValue::from that leaves the value unset
EnumerationValue_from_untitled(value) ==
    [display_information |-> DisplayInformation(Some(value), None, None, None),
     value |-> None,
     type_spec |-> Required(String)]

\* impl From<&str> for EnumerationValue
EnumerationValue_from(value) ==
    LET title == value
    IN  [display_information |-> DisplayInformation(Some(title), None, None, None),
         value |-> Some(title),
         type_spec |-> Required(String)]

----------------------------------------------------------------------------
(* output/serialization/json_schema.rs *)

\* the output document: an object is the sequence of its entries <<key, value>>
\* in the order they were written
JString(chars) == [j |-> "string", v |-> chars]
JObject(entries) == [j |-> "object", v |-> entries]

SCHEMA_URL ==
    <<"h","t","t","p",":","/","/","j","s","o","n","-","s","c","h","e","m","a",".",
      "o","r","g","/","d","r","a","f","t","-","0","4","/","s","c","h","e","m","a","#">>

O_schema == <<"$","s","c","h","e","m","a">>

\* the `type` keyword of a kind
TypeName(objectType) ==
    CASE objectType.raw.kind = "Object" -> T_object
      [] objectType.raw.kind = "Text" -> T_string   \* a text is a JSON string
      [] objectType.raw.kind = "String" -> T_string
      [] OTHER -> <<"a","r","r","a","y">>

WidgetName(widget) ==
    CASE widget = "Default" -> W_default
      [] widget = "Textarea" -> W_textarea
      [] widget = "Dropdown" -> W_dropdown

\* one entry of the output for an optional text, nothing when it is absent
OptionalEntry(key, text) ==
    IF text.some THEN << <<key.v, JString(text.val)>> >> ELSE <<>>

RECURSIVE serialize_schema(_, _)
RECURSIVE PropertyEntries(_, _)

\* the entries of the `properties` object from index i on, in the list's order
PropertyEntries(entries, i) ==
    IF i > Len(entries) THEN <<>>
    ELSE << <<entries[i].name, JObject(serialize_schema(entries[i].schema, <<>>))>> >>
         \o PropertyEntries(entries, i + 1)

\* output::serialization::properties::serialize_schema: the fields of a node
\* written into the map it is given
serialize_schema(schema, map) ==
    map
    \o << <<K_type.v, JString(TypeName(schema.object_type))>> >>
    \o (IF schema.children.some
        THEN << <<K_properties.v,
                  JObject(PropertyEntries(schema.children.val.entries, 1))>> >>
        ELSE <<>>)
    \o OptionalEntry(K_title, schema.annotations.title)
    \o OptionalEntry(K_help, schema.annotations.help)
    \o OptionalEntry(K_warning, schema.annotations.warning)
    \o OptionalEntry(K_description, schema.annotations.description)
    \o (IF schema.annotations.widget.some
        THEN << <<K_widget.v, JString(WidgetName(schema.annotations.widget.val))>> >>
        ELSE <<>>)
    \o OptionalEntry(K_formula, schema.formula)

\* impl From<DocumentRoot> for JsonSchema
JsonSchema_from(documentRoot) ==
    [root |-> documentRoot.schema, schema_url |-> SCHEMA_URL]

\* serialize that writes the `$schema` entry after the root's fields
JsonSchema_serialize_last(jsonSchema) ==
    serialize_schema(jsonSchema.root, <<>>)
        \o << <<O_schema, JString(jsonSchema.schema_url)>> >>

\* impl Serialize for JsonSchema
JsonSchema_serialize(jsonSchema) ==
    LET map == << <<O_schema, JString(jsonSchema.schema_url)>> >>
    IN  serialize_schema(jsonSchema.root, map)

----------------------------------------------------------------------------
(* The documents, source schemas and literals the model runs on. *)

Opt(S) == {None} \cup {Some(x) : x \in S}

\* the sequences over S of length 0 .. n
SeqUpTo(S, n) == UNION {[1..k -> S] : k \in 0..n}

Entry(key, value) == IF value.some THEN << <<key, value.val>> >> ELSE <<>>

\* a node of the raw tree, its present entries in a fixed order
Node(ver, type, widget, title, form, props) ==
    Mapping(Entry(K_version, ver) \o Entry(K_type, type) \o Entry(K_widget, widget)
            \o Entry(K_title, title) \o Entry(K_formula, form)
            \o Entry(K_properties, props))

N_a == Str(<<"a">>)
N_b == Str(<<"b">>)
N_c == Str(<<"c">>)
F_op == Str(<<"o","p">>)
F_sum == Str(<<"s","u","m">>)

Versions ==
    {Num(n) : n \in 0..MaxVersion}
        \cup {Num(-1), Float(<<"1",".","0">>), Str(<<"1">>), Null}

Types ==
    {Str(T_text), Str(T_text \o <<"?">>), Str(T_string), Str(T_object \o <<"?">>),
     Str(<<"b","l","o","b">>), Num(3)}

Widgets == {Str(W_default), Str(W_dropdown), Str(W_textarea), Str(<<"x">>), Bool(TRUE)}

Formulas ==
    {Str(<<"a","+","b">>), Str(<<"\"","a","\"">>), Str(<<>>),
     Mapping(<< <<F_op, F_sum>> >>),
     Mapping(<< <<Num(1), Str(<<"a","\\","b">>)>>, <<N_b, Null>> >>),
     Mapping(<< <<Null, F_sum>> >>),
     Sequence(<<Bool(TRUE), Num(-12), Float(<<"1",".","5">>), Mapping(<<>>)>>),
     Num(7), Null}

\* a node with nothing but a type and a widget
Typed(type, widget) == Node(None, Some(Str(type)), Some(Str(widget)), None, None, None)

\* a node with nothing but properties
Parent(props) == Node(None, None, None, None, None, Some(props))

Named(name, schema) == Mapping(<< <<name, schema>> >>)

Empty == Mapping(<<>>)

\* the nodes one level below the root; the nodes two levels below are in
\* their properties
Children ==
    {Empty,
     Typed(T_text, W_default),
     Typed(T_text \o <<"?">>, W_dropdown),
     Typed(T_string, W_default),
     Node(Some(Num(1)), None, None, None, Some(Mapping(<< <<F_op, F_sum>> >>)), None),
     Node(Some(Num(2)), None, None, None, None, None),
     Parent(Sequence(<<Named(N_b, Typed(T_text, W_default)),
                       Named(N_a, Node(None, None, None, None,
                                       Some(Sequence(<<Num(7), Null>>)), None))>>)),
     Parent(Sequence(<<Named(N_c, Typed(T_text \o <<"?">>, W_dropdown))>>)),
     Parent(Sequence(<<Mapping(<< <<N_c, Empty>>, <<N_a, Empty>> >>)>>)),
     Parent(Sequence(<<Named(N_c, Node(Some(Num(2)), None, None, None, None, None))>>)),
     Parent(Sequence(<<Null>>)),
     Parent(Empty)}

\* the elements of the root's `properties`: single-entry mappings with a
\* string key, and every other shape
Elements ==
    {Named(N_a, child) : child \in Children}
        \cup {Named(N_b, Empty), Named(N_b, Typed(T_text, W_default))}
        \cup {Mapping(<< <<N_b, Typed(T_text, W_default)>>, <<N_a, Str(<<"x">>)>> >>),
              Named(Num(7), Empty),
              Empty,
              Str(<<"a">>),
              Sequence(<<>>)}

\* documents without properties: every version, type, widget and formula
ScalarDocuments ==
    {Node(ver, type, widget, None, form, None) :
        ver \in Opt(Versions), type \in Opt(Types),
        widget \in Opt(Widgets), form \in Opt(Formulas)}

\* documents with a title, of either shape
TitledDocuments ==
    {Node(None, type, widget, Some(title), None, None) :
        type \in {None, Some(Str(T_text))},
        widget \in {None, Some(Str(W_dropdown))},
        title \in {Str(<<"T">>), Num(1)}}

\* documents with properties
TreeDocuments ==
    {Node(ver, None, None, None, None, Some(Sequence(elements))) :
        ver \in {None, Some(Num(1))}, elements \in SeqUpTo(Elements, MaxProps)}
        \cup {Node(None, None, None, None, None, Some(p)) :
                p \in {Mapping(<< <<N_a, Mapping(<<>>)>> >>), Str(<<"a">>), Null}}

Documents ==
    ScalarDocuments \cup TitledDocuments \cup TreeDocuments
        \cup {Null, Str(<<"a">>), Sequence(<<Mapping(<<>>)>>)}

----------------------------------------------------------------------------
(* The source schemas normalize runs on. *)

\* a nested schema with two properties: c untyped, d with an empty
\* candidate-type list
Inner ==
    SourceSchema(Some(PropertyList(<<PropertyEntry(N_c.v, None),
                                     PropertyEntry(<<"d">>, Some(<<>>))>>)))

\* a plain type, and a composite type that nests a schema
ObjectTypes == {Optional(Text), Required(Array(Some(Inner)))}

\* the candidate-type lists of a property: absent, empty, or up to MaxTypes types
CandidateTypes == {None} \cup {Some(types) : types \in SeqUpTo(ObjectTypes, MaxTypes)}

\* the names of the properties of a list, in order
PropertyNames == <<N_a.v, N_b.v, N_c.v, <<"d">>, <<"e">>>>

SourceSchemas ==
    {SourceSchema(None)}
        \cup {SourceSchema(Some(PropertyList(
                 [i \in 1..Len(types) |-> PropertyEntry(PropertyNames[i], types[i])]))) :
                 types \in SeqUpTo(CandidateTypes, MaxEntries)}

----------------------------------------------------------------------------
(* The literals an enumeration value is made from. *)

Alphabet == {"r", "e", "d", " "}

Literals == SeqUpTo(Alphabet, MaxLiteral)

----------------------------------------------------------------------------
(* The state machine. *)

\* nothing deserialized, serialized or constructed yet
Pending == Err("pending")

\* a compilation starts from a freshly parsed document
InitCompile ==
    /\ pc = "deserialize"
    /\ raw \in Documents
    /\ root = Pending
    /\ output = <<>>
    /\ declared = SourceSchema(None)
    /\ source = SourceSchema(None)
    /\ first = SourceSchema(None)
    /\ passes = 0
    /\ literal = <<>>
    /\ enumeration = None

\* deserialize_root; a failure aborts the compilation
Deserialize ==
    /\ pc = "deserialize"
    /\ root' = deserialize_root(raw)
    /\ pc' = IF root'.ok THEN "serialize" ELSE "failed"
    /\ UNCHANGED <<raw, output, declared, source, first, passes, literal, enumeration>>

\* JsonSchema::from(root), then its serialization
Serialize ==
    /\ pc = "serialize"
    /\ output' = JsonSchema_serialize(JsonSchema_from(root.val))
    /\ pc' = "done"
    /\ UNCHANGED <<raw, root, declared, source, first, passes, literal, enumeration>>

NextCompile == Deserialize \/ Serialize

Spec == InitCompile /\ [][NextCompile]_vars

\* a source schema as it was declared
InitNormalize ==
    /\ pc = "normalize"
    /\ declared \in SourceSchemas
    /\ source = declared
    /\ first = declared
    /\ passes = 0
    /\ raw = Null
    /\ root = Pending
    /\ output = <<>>
    /\ literal = <<>>
    /\ enumeration = None

\* SourceSchema::normalize, in place; declared keeps the schema as it was
\* before any pass and first the tree the first pass left
Normalize ==
    /\ pc = "normalize"
    /\ passes < MaxPasses
    /\ source' = SourceSchema_normalize(source)
    /\ first' = IF passes = 0 THEN source' ELSE first
    /\ passes' = passes + 1
    /\ UNCHANGED <<pc, raw, root, output, declared, literal, enumeration>>

NextNormalize == Normalize

SpecNormalize == InitNormalize /\ [][NextNormalize]_vars

InitEnumeration ==
    /\ pc = "literal"
    /\ literal \in Literals
    /\ enumeration = None
    /\ raw = Null
    /\ root = Pending
    /\ output = <<>>
    /\ declared = SourceSchema(None)
    /\ source = SourceSchema(None)
    /\ first = SourceSchema(None)
    /\ passes = 0

\* EnumerationValue::from(literal)
FromLiteral ==
    /\ pc = "literal"
    /\ enumeration' = Some(EnumerationValue_from(literal))
    /\ pc' = "done"
    /\ UNCHANGED <<raw, root, output, declared, source, first, passes, literal>>

NextEnumeration == FromLiteral

SpecEnumeration == InitEnumeration /\ [][NextEnumeration]_vars

----------------------------------------------------------------------------
(* Properties of the deserializer and the serializer, checked under Spec. *)

Compiled == pc \in {"serialize", "done"}

\* the first entry of the i-th element of a node's `properties`
ChildEntry(value, i) == Get(value.v, K_properties).val.v[i].v[1]

\* every node of a deserialized tree, paired with the raw node it came from
RECURSIVE NodePairs(_, _)
NodePairs(value, schema) ==
    {<<value, schema>>}
        \cup (IF schema.children.some
              THEN UNION {NodePairs(ChildEntry(value, i)[2],
                                    schema.children.val.entries[i].schema) :
                             i \in 1..Len(schema.children.val.entries)}
              ELSE {})

\* the deserialized nodes below the root, each with its raw node
NestedPairs == NodePairs(raw, root.val.schema) \ {<<raw, root.val.schema>>}

\* a mapping without the entry of a key
RECURSIVE Without(_, _)
Without(entries, key) ==
    IF entries = <<>> THEN <<>>
    ELSE IF Head(entries)[1] = key THEN Without(Tail(entries), key)
    ELSE <<Head(entries)>> \o Without(Tail(entries), key)

\* C1: as far as the version is concerned, deserialize_root accepts a document
\* exactly when its root has no `version` entry or the entry is the integer 1:
\* with any other version it fails, with version 1 it gives the very result the
\* document gives without the entry, and an accepted document has version 1.
VersionOneOrAbsent ==
    (pc # "deserialize" /\ raw.t = "Mapping") =>
        LET entry == Get(raw.v, K_version)
            supported == ~entry.some \/ (entry.val.t = "Int" /\ entry.val.v = 1)
        IN  /\ ~supported => ~root.ok
            /\ supported => root = deserialize_root(Mapping(Without(raw.v, K_version)))
            /\ root.ok => root.val.schema.version = [some |-> TRUE, val |-> 1]

\* a document with `version: 1` and properties was accepted
VersionOneAccepted ==
    /\ Compiled
    /\ Get(raw.v, K_version) = Some(Num(1))
    /\ root.val.schema.children.some
    /\ Len(root.val.schema.children.val.entries) = 2

\* C4: in a deserialized tree, every node of kind text, required or optional
\* and at any depth, has the widget textarea.
TextIsTextarea ==
    Compiled =>
        \A pair \in NodePairs(raw, root.val.schema) :
            pair[2].object_type.raw.kind = "Text" =>
                pair[2].annotations.widget = [some |-> TRUE, val |-> "Textarea"]

\* a text node two levels below the root, optional, whose source asked for
\* the widget dropdown
TextareaOverridesDropdown ==
    /\ Compiled
    /\ \E pair \in NestedPairs, deeper \in NestedPairs :
          /\ deeper \in NodePairs(pair[1], pair[2]) \ {pair}
          /\ deeper[2].object_type = Optional(Text)
          /\ Get(deeper[1].v, K_widget) = Some(Str(W_dropdown))
          /\ deeper[2].annotations.widget = Some("Textarea")

\* the children of a node are its `properties`, element by element and in order
RECURSIVE OrderKept(_, _)
OrderKept(value, schema) ==
    LET props == Get(value.v, K_properties)
    IN  IF ~props.some THEN ~schema.children.some
        ELSE /\ schema.children.some
             /\ Len(schema.children.val.entries) = Len(props.val.v)
             /\ \A i \in 1..Len(props.val.v) :
                   LET element == props.val.v[i].v
                       child == schema.children.val.entries[i]
                   IN  /\ Len(element) = 1 =>
                             /\ child.name = element[1][1].v
                             /\ child.schema = deserialize_schema(element[1][2]).val
                       /\ OrderKept(element[1][2], child.schema)

\* C5: after a successful deserialization, the children of every node are
\* exactly its `properties` [{n1: s1}, ..., {nk: sk}]: k entries, the i-th named
\* ni and holding the deserialization of si, at every depth.
PropertiesKeepOrder == Compiled => OrderKept(raw, root.val.schema)

\* the root's properties a then b were deserialized, a's own being b then a
TwoLevelsInOrder ==
    /\ Compiled
    /\ root.val.schema.children.some
    /\ LET entries == root.val.schema.children.val.entries
       IN  /\ Len(entries) = 2
           /\ entries[1].name = <<"a">>
           /\ entries[2].name = <<"b">>
           /\ entries[1].schema.children.some
           /\ LET nested == entries[1].schema.children.val.entries
              IN  /\ Len(nested) = 2
                  /\ nested[1].name = <<"b">>
                  /\ nested[2].name = <<"a">>

\* a `properties` entry of the wrong shape, in this node or below it; with
\* several, a mapping of more than one entry counts as one
RECURSIVE ShapeViolation(_, _)
ShapeViolation(value, several) ==
    /\ value.t = "Mapping"
    /\ LET props == Get(value.v, K_properties)
       IN  /\ props.some
           /\ \/ props.val.t # "Sequence"
              \/ \E i \in 1..Len(props.val.v) :
                    LET element == props.val.v[i]
                    IN  \/ element.t # "Mapping"
                        \/ Len(element.v) = 0
                        \/ (several /\ Len(element.v) > 1)
                        \/ element.v[1][1].t # "String"
                        \/ ShapeViolation(element.v[1][2], several)

\* C6: deserialization fails for every shape violation of a `properties`
\* entry: not a sequence, an element that is not a single-entry mapping (a
\* non-mapping, an empty mapping, a mapping of several entries), a key that is
\* not a string.
ShapeViolationsFail ==
    (pc # "deserialize" /\ ShapeViolation(raw, TRUE)) => ~root.ok

\* the shape violations other than a mapping of several entries do fail
OtherShapeViolationsFail ==
    (pc # "deserialize" /\ ShapeViolation(raw, FALSE)) => ~root.ok

\* a mapping of several entries was accepted, its first entry alone kept
SeveralEntriesAccepted ==
    /\ Compiled
    /\ ShapeViolation(raw, TRUE)
    /\ ~ShapeViolation(raw, FALSE)

\* C7: every deserialized node carries no formula when its `formula` entry is
\* absent, the same text when the entry is a string, and the JSON text of the
\* entry otherwise; `formula: {op: "sum"}` gives {"op":"sum"}.
FormulaIsText ==
    Compiled =>
        \A pair \in NodePairs(raw, root.val.schema) :
            LET entry == Get(pair[1].v, K_formula)
            IN  /\ ~entry.some => pair[2].formula = [some |-> FALSE]
                /\ (entry.some /\ entry.val.t = "String") =>
                      pair[2].formula = [some |-> TRUE, val |-> entry.val.v]
                /\ (entry.some /\ entry.val.t # "String") =>
                      /\ to_string(entry.val).ok
                      /\ pair[2].formula = [some |-> TRUE, val |-> to_string(entry.val).val]
                /\ (entry.some /\ entry.val = Mapping(<< <<F_op, F_sum>> >>)) =>
                      pair[2].formula.val =
                          <<"{", "\"", "o", "p", "\"", ":", "\"", "s", "u", "m", "\"", "}">>

\* a node below the root was given `formula: {op: "sum"}` and the root a
\* string formula
FormulaEncoded ==
    /\ Compiled
    /\ \E pair \in NestedPairs :
          /\ Get(pair[1].v, K_formula) = Some(Mapping(<< <<F_op, F_sum>> >>))
          /\ pair[2].formula.some
          /\ Len(pair[2].formula.val) = 12

\* the root was given a string formula with a quote in it, kept as it is
FormulaKept ==
    /\ Compiled
    /\ Get(raw.v, K_formula) = Some(Str(<<"\"", "a", "\"">>))
    /\ root.val.schema.formula = Some(<<"\"", "a", "\"">>)

\* C8: the output of a valid document is one flat object: its first entry is
\* `$schema` with the Draft 4 URL, written once, and the entries after it are
\* the root node's own fields.
SchemaUrlFirst ==
    pc = "done" =>
        /\ Len(output) >= 1
        /\ output[1][1] = <<"$", "s", "c", "h", "e", "m", "a">>
        /\ output[1][2] =
              [j |-> "string",
               v |-> <<"h","t","t","p",":","/","/","j","s","o","n","-",
                       "s","c","h","e","m","a",".","o","r","g","/",
                       "d","r","a","f","t","-","0","4","/",
                       "s","c","h","e","m","a","#">>]
        /\ Cardinality({i \in 1..Len(output) : output[i][1] = O_schema}) = 1
        /\ Tail(output) = serialize_schema(root.val.schema, <<>>)

\* a document with two properties was serialized
FlatOutput ==
    /\ pc = "done"
    /\ Len(output) = 3
    /\ output[2][1] = K_type.v
    /\ output[3][1] = K_properties.v
    /\ Len(output[3][2].v) = 2

----------------------------------------------------------------------------
(* Properties of the normalizer, checked under SpecNormalize. *)

Entries(schema) ==
    IF schema.property_list.some THEN schema.property_list.val.entries ELSE <<>>

\* C2: normalize is idempotent: a second pass leaves the tree the first pass
\* produced, whatever the candidate-type lists were (absent, empty, non-empty).
NormalizeIdempotent == passes >= 2 => source = first

\* two passes over a schema with a property whose list is empty and a
\* property with a plain type and a type that nests an untyped property
NormalizedTwice ==
    /\ passes = 2
    /\ source # declared
    /\ \E j, k \in 1..Len(Entries(declared)) :
          /\ Entries(declared)[j].property.types = Some(<<>>)
          /\ Entries(declared)[k].property.types
                = Some(<<Optional(Text), Required(Array(Some(Inner)))>>)

\* C3: every property of the schema's property list declared without a type
\* has exactly the candidate types [Required(Object)] after normalize.
UntypedIsRequiredObject ==
    passes >= 1 =>
        /\ Len(Entries(source)) = Len(Entries(declared))
        /\ \A i \in 1..Len(Entries(declared)) :
              ~Entries(declared)[i].property.types.some =>
                 Entries(source)[i].property.types =
                    [some |-> TRUE,
                     val |-> <<[wrap |-> "Required",
                                raw |-> [kind |-> "Object",
                                         config |-> [some |-> FALSE]]]>>]

\* one pass over a schema whose second property is untyped
UntypedNormalized ==
    /\ passes = 1
    /\ Len(Entries(declared)) = 2
    /\ Entries(declared)[1].property.types.some
    /\ ~Entries(declared)[2].property.types.some
    /\ Entries(source)[2].property.types.some

\* C10: after normalize, every property of the schema's property list has a
\* present, non-empty candidate-type list, whatever the list was before.
EveryPropertyTyped ==
    passes >= 1 =>
        \A i \in 1..Len(Entries(source)) :
            /\ Entries(source)[i].property.types.some
            /\ Len(Entries(source)[i].property.types.val) >= 1

----------------------------------------------------------------------------
(* Properties of the enumeration values, checked under SpecEnumeration. *)

\* C9: an enumeration value made from a literal has the literal as its title
\* and its value, the type required string without configuration, and no help,
\* warning or description.
EnumerationFromLiteral ==
    (pc = "done" /\ enumeration.some) =>
        /\ enumeration.val.display_information.title = [some |-> TRUE, val |-> literal]
        /\ enumeration.val.value = [some |-> TRUE, val |-> literal]
        /\ enumeration.val.type_spec =
              [wrap |-> "Required",
               raw |-> [kind |-> "String", config |-> [some |-> FALSE]]]
        /\ enumeration.val.display_information.help = [some |-> FALSE]
        /\ enumeration.val.display_information.warning = [some |-> FALSE]
        /\ enumeration.val.display_information.description = [some |-> FALSE]

\* the enumeration value of the literal red
RedEnumeration ==
    /\ pc = "done"
    /\ literal = <<"r", "e", "d">>
    /\ enumeration.some
    /\ enumeration.val.value = Some(<<"r", "e", "d">>)

====
